---- MODULE Spec2Model ----
(***************************************************************************)
(* Model of go-locEnv: the .env.<profile> file locator and loader.         *)
(*                                                                         *)
(* Two successive versions of FileEnvLoader are modelled:                  *)
(*   "v2"  the profile-matching loader (src/unnamed/part_000)              *)
(*   "v1"  the earlier loader         (src/config/env.go)                  *)
(* Go strings (paths, file names, profiles) are sequences of characters,   *)
(* so that HasPrefix, TrimPrefix, filepath.Dir and filepath.Join are       *)
(* computed as the code computes them.                                     *)
(***************************************************************************)
EXTENDS Integers, Sequences, FiniteSets, TLC

VARIABLES version, cwd, files, unreadable, environ, Env, pc, currentDir,
          lastErr, loaded, scanned, scan, envAtCall, environAtCall, got

vars == <<version, cwd, files, unreadable, environ, Env, pc, currentDir,
          lastErr, loaded, scanned, scan, envAtCall, environAtCall, got>>

(***************************************************************************)
(* Bounds of the explored filesystems.                                     *)
(***************************************************************************)
MaxFiles == 2

(***************************************************************************)
(* Strings.                                                                *)
(***************************************************************************)
EmptyString == << >>
Slash == <<"/">>
Dot == <<".">>
DotEnvPrefix == <<".", "e", "n", "v", ".">>

\* byte order of the characters in use (ASCII)
CharOrder == <<".", "/", "D", "a", "b", "d", "e", "n", "v", "x">>

Ord(c) == CHOOSE i \in 1..Len(CharOrder) : CharOrder[i] = c

\* s < t in the byte-wise order sort.Strings uses
RECURSIVE LessStr(_, _)
LessStr(s, t) ==
    IF t = << >> THEN FALSE
    ELSE IF s = << >> THEN TRUE
    ELSE IF Head(s) # Head(t) THEN Ord(Head(s)) < Ord(Head(t))
    ELSE LessStr(Tail(s), Tail(t))

HasPrefix(s, prefix) ==
    /\ Len(s) >= Len(prefix)
    /\ SubSeq(s, 1, Len(prefix)) = prefix

TrimPrefix(s, prefix) ==
    IF HasPrefix(s, prefix) THEN SubSeq(s, Len(prefix) + 1, Len(s)) ELSE s

\* index of the last "/" of s, 0 when there is none
LastSlash(s) ==
    LET idx == {i \in 1..Len(s) : s[i] = "/"}
    IN IF idx = {} THEN 0 ELSE CHOOSE i \in idx : \A j \in idx : j <= i

\* filepath.Dir on a clean path
Dir(path) ==
    LET i == LastSlash(path)
    IN IF i = 0 THEN Dot
       ELSE IF i = 1 THEN Slash
       ELSE SubSeq(path, 1, i - 1)

\* filepath.Base on a clean path (os.FileInfo.Name of the entry)
Base(path) ==
    IF path = Slash THEN Slash
    ELSE SubSeq(path, LastSlash(path) + 1, Len(path))

\* filepath.Join(dir, name) on clean arguments
Join(dir, name) ==
    IF dir = Dot THEN name
    ELSE IF dir = Slash THEN Slash \o name
    ELSE dir \o Slash \o name

\* the absolute path a path denotes in the process (relative to cwd)
Abs(path) ==
    IF path # << >> /\ Head(path) = "/" THEN path
    ELSE IF path = Dot THEN cwd
    ELSE Join(cwd, path)

(***************************************************************************)
(* Errors.                                                                 *)
(***************************************************************************)
Nil == [kind |-> "nil", at |-> EmptyString]
ErrEnvFound == [kind |-> "env found", at |-> EmptyString]
ErrNotFound == [kind |-> "arquivo .env nao encontrado", at |-> EmptyString]
ErrGetwd == [kind |-> "getwd", at |-> EmptyString]
FsError(path) == [kind |-> "fs", at |-> path]
ParseError(path) == [kind |-> "parse", at |-> path]
WrapLoadError(e) == [kind |-> "erro ao carregar variaveis de ambiente", at |-> e.at]
NoCall == [kind |-> "no call", at |-> EmptyString]

(***************************************************************************)
(* The explored filesystems.                                               *)
(***************************************************************************)
DirA == <<"/", "a">>
DirAB == <<"/", "a", "/", ".", "b">>
DirAX == <<"/", "a", "/", "x">>
Dirs == {Slash, DirA, DirAB, DirAX}
WorkDirs == {Slash, DirA, DirAX}

\* .env.d, .env.D (two candidates whose profiles differ by case only) and
\* .env (no candidate: the prefix is ".env.")
FileNames == {DotEnvPrefix \o <<"d">>, DotEnvPrefix \o <<"D">>,
              <<".", "e", "n", "v">>}
Profiles == {<<"d">>, <<"D">>}
FilePaths == {Join(d, n) : d \in Dirs, n \in FileNames}

\* every file holds one line, K=<value>, the value naming the file it stands
\* in, so that the values of two files always differ
Keys == {"K"}
Content(path) == [k \in Keys |-> path]
Unset == <<"u", "n", "s", "e", "t">>
OldValue == <<"o", "l", "d">>
Environs == {[k \in Keys |-> Unset], [k \in Keys |-> OldValue]}


(***************************************************************************)
(* The filesystem as filepath.Walk sees it.                                *)
(***************************************************************************)
\* the entries of directory dir (absolute paths)
Entries(dir) ==
    {p \in Dirs \cup files : p # dir /\ Dir(p) = dir}

\* readDirNames: the names of a directory, sorted
RECURSIVE SortedNames(_)
SortedNames(S) ==
    IF S = {} THEN << >>
    ELSE LET m == CHOOSE x \in S : \A y \in S \ {x} : LessStr(x, y)
         IN <<m>> \o SortedNames(S \ {m})

ReadDirNames(dir) == SortedNames({Base(p) : p \in Entries(Abs(dir))})

\* The calls filepath.Walk(root, fn) makes while fn returns nil: root first,
\* then each entry in lexical order, directories descended into at once.
\* A directory that cannot be read is reported once, with the error.
RECURSIVE VisitOrder(_)
RECURSIVE VisitNames(_, _)
VisitOrder(path) ==
    IF Abs(path) \notin Dirs
    THEN <<[path |-> path, isDir |-> FALSE, err |-> Nil]>>
    ELSE IF Abs(path) \in unreadable
    THEN <<[path |-> path, isDir |-> TRUE, err |-> FsError(path)]>>
    ELSE <<[path |-> path, isDir |-> TRUE, err |-> Nil]>>
         \o VisitNames(path, ReadDirNames(path))
VisitNames(dir, names) ==
    IF names = << >> THEN << >>
    ELSE VisitOrder(Join(dir, Head(names))) \o VisitNames(dir, Tail(names))

(***************************************************************************)
(* The functions the two loaders pass to filepath.Walk.  Each takes the    *)
(* variables its closure captures (st) and one visit, and gives the        *)
(* variables afterwards and the error it returns.                          *)
(***************************************************************************)
\* variant: any candidate passes (the first-found behaviour)
ProfileMatchesAny(env) == TRUE

\* variant: the profiles are compared without regard to case
ProfileMatchesFold(env) ==
    LET lower(s) == [i \in 1..Len(s) |-> IF s[i] = "D" THEN "d" ELSE s[i]]
    IN lower(env) = lower(Env)

\* the test a candidate's encoded profile must pass: env == f.Env
ProfileMatches(env) == env = Env

\* variant: a match is recorded but the walk is not stopped
searchWalkFnNoStop(st, v) ==
    IF v.err # Nil THEN [st |-> st, ret |-> v.err]
    ELSE IF v.isDir THEN [st |-> st, ret |-> Nil]
    ELSE IF HasPrefix(Base(v.path), DotEnvPrefix)
    THEN LET env == TrimPrefix(Base(v.path), DotEnvPrefix)
         IN IF env = Env
            THEN [st |-> [filePath |-> v.path, env |-> env], ret |-> Nil]
            ELSE [st |-> [filePath |-> st.filePath, env |-> env], ret |-> Nil]
    ELSE [st |-> st, ret |-> Nil]

\* the closure passed to filepath.Walk by searchInDirectory
searchWalkFn(st, v) ==
    IF v.err # Nil THEN [st |-> st, ret |-> v.err]
    ELSE IF v.isDir THEN [st |-> st, ret |-> Nil]
    ELSE IF HasPrefix(Base(v.path), DotEnvPrefix)
    THEN LET env == TrimPrefix(Base(v.path), DotEnvPrefix)
         IN IF ProfileMatches(env)
            THEN [st |-> [filePath |-> v.path, env |-> env], ret |-> ErrEnvFound]
            ELSE [st |-> [filePath |-> st.filePath, env |-> env], ret |-> Nil]
    ELSE [st |-> st, ret |-> Nil]

\* variant: the first candidate is kept
findWalkFnKeepFirst(st, v) ==
    IF v.err # Nil THEN [st |-> st, ret |-> v.err]
    ELSE IF v.isDir THEN [st |-> st, ret |-> Nil]
    ELSE IF HasPrefix(Base(v.path), DotEnvPrefix) /\ st.filePath = EmptyString
    THEN [st |-> [filePath |-> v.path,
                  env |-> TrimPrefix(Base(v.path), DotEnvPrefix)],
          ret |-> Nil]
    ELSE [st |-> st, ret |-> Nil]

\* variant: the path is that of the last candidate, the profile that of the first
findWalkFnStaleEnv(st, v) ==
    IF v.err # Nil THEN [st |-> st, ret |-> v.err]
    ELSE IF v.isDir THEN [st |-> st, ret |-> Nil]
    ELSE IF HasPrefix(Base(v.path), DotEnvPrefix)
    THEN [st |-> [filePath |-> v.path,
                  env |-> IF st.filePath = EmptyString
                          THEN TrimPrefix(Base(v.path), DotEnvPrefix)
                          ELSE st.env],
          ret |-> Nil]
    ELSE [st |-> st, ret |-> Nil]

\* the closure passed to filepath.Walk by the earlier findEnvFile
findWalkFn(st, v) ==
    IF v.err # Nil THEN [st |-> st, ret |-> v.err]
    ELSE IF v.isDir THEN [st |-> st, ret |-> Nil]
    ELSE IF HasPrefix(Base(v.path), DotEnvPrefix)
    THEN [st |-> [filePath |-> v.path,
                  env |-> TrimPrefix(Base(v.path), DotEnvPrefix)],
          ret |-> Nil]
    ELSE [st |-> st, ret |-> Nil]

\* the walk function that fn names, called on one visit
CallWalkFn(fn, st, v) ==
    IF fn = "searchInDirectory" THEN searchWalkFn(st, v) ELSE findWalkFn(st, v)

\* filepath.Walk: fn is called on the visits in order until it returns an
\* error, which is then the result of the walk.  st holds the variables the
\* closure captures; n counts the calls made.
RECURSIVE WalkFrom(_, _, _, _)
WalkFrom(visits, fn, st, n) ==
    IF visits = << >> THEN [st |-> st, err |-> Nil, n |-> n]
    ELSE LET r == CallWalkFn(fn, st, Head(visits))
         IN IF r.ret # Nil
            THEN [st |-> r.st, err |-> r.ret, n |-> n + 1]
            ELSE WalkFrom(Tail(visits), fn, r.st, n + 1)

Walk(root, fn, st) == WalkFrom(VisitOrder(root), fn, st, 0)

(***************************************************************************)
(* The profile-matching loader.                                            *)
(***************************************************************************)
\* variant: the stop signal is not intercepted
FoundToNilNever(err) == err

\* variant: every error of the walk is dropped
FoundToNilAlways(err) == Nil

\* the error searchInDirectory returns for the error of its walk
FoundToNil(err) == IF err = ErrEnvFound THEN Nil ELSE err

searchInDirectory(dir) ==
    LET w == Walk(dir, "searchInDirectory", [filePath |-> EmptyString, env |-> EmptyString])
    IN [filePath |-> w.st.filePath, env |-> w.st.env, err |-> FoundToNil(w.err),
        walkErr |-> w.err, n |-> w.n, dir |-> dir]

NoScan == [filePath |-> EmptyString, env |-> EmptyString, err |-> Nil,
           walkErr |-> Nil, n |-> 0, dir |-> EmptyString]

\* godotenv.Load(envFile): a file that cannot be read or parsed (malformed)
\* is an error and sets nothing; otherwise every key of the file that the
\* process environment does not hold yet is set (Load never overrides).
godotenvLoad(envFile, malformed) ==
    IF malformed THEN [err |-> ParseError(envFile), environ |-> environ]
    ELSE [err |-> Nil,
          environ |-> [k \in Keys |->
                         IF environ[k] = Unset THEN Content(Abs(envFile))[k]
                         ELSE environ[k]]]

loadEnvFile(envFile, malformed) ==
    LET r == godotenvLoad(envFile, malformed)
    IN [err |-> IF r.err # Nil THEN WrapLoadError(r.err) ELSE Nil,
        environ |-> r.environ]


(***************************************************************************)
(* State.                                                                  *)
(*   version        which FileEnvLoader the build holds                    *)
(*   cwd            the process working directory                          *)
(*   files          the regular files (absolute paths)                     *)
(*   unreadable     the directories whose listing fails                    *)
(*   environ        the process environment                                *)
(*   Env            FileEnvLoader.Env                                      *)
(*   pc, currentDir the position of a running LoadEnv and its loop variable*)
(*   lastErr        what the last LoadEnv returned                         *)
(*   loaded         the path the last LoadEnv passed to godotenv.Load      *)
(*   scanned        the directories the last LoadEnv walked, in order      *)
(*   scan           the result of the last walk                            *)
(*   envAtCall, environAtCall  Env and environ when LoadEnv was called     *)
(*   got            what GetEnv returned since the last LoadEnv            *)
(***************************************************************************)
NotAsked == [called |-> FALSE, value |-> EmptyString]

FileSystems == {S \in SUBSET FilePaths : Cardinality(S) <= MaxFiles}

Init ==
    /\ version \in {"v1", "v2"}
    /\ cwd \in WorkDirs
    /\ files \in FileSystems
    /\ unreadable \in {{}} \cup {{d} : d \in Dirs}
    /\ environ \in Environs
    /\ Env \in Profiles
    /\ pc = "idle"
    /\ currentDir = EmptyString
    /\ lastErr = NoCall
    /\ loaded = EmptyString
    /\ scanned = << >>
    /\ scan = NoScan
    /\ envAtCall = Env
    /\ environAtCall = environ
    /\ got = NotAsked

\* LoadEnv from the return of findEnvFile on: that return is (envFile, env, err)
LoadEnvReturn(envFile, env, err) ==
    IF err # Nil
    THEN /\ lastErr' = err
         /\ UNCHANGED <<Env, environ, loaded>>
    ELSE IF envFile = EmptyString
    THEN /\ lastErr' = ErrNotFound
         /\ UNCHANGED <<Env, environ, loaded>>
    ELSE \E malformed \in BOOLEAN :
           LET r == loadEnvFile(envFile, malformed)
           IN /\ Env' = env
              /\ loaded' = envFile
              /\ environ' = r.environ
              /\ lastErr' = r.err

\* LoadEnv is called; findEnvFile asks for the working directory and, when
\* it gets one, enters the loop of searchInCurrentAndParentDirectories
LoadEnv ==
    /\ version = "v2"
    /\ pc = "idle"
    /\ envAtCall' = Env
    /\ environAtCall' = environ
    /\ got' = NotAsked
    /\ scanned' = << >>
    /\ scan' = NoScan
    /\ \E getwdFails \in BOOLEAN :
         IF getwdFails
         THEN /\ lastErr' = ErrGetwd
              /\ loaded' = EmptyString
              /\ UNCHANGED <<pc, currentDir, Env, environ>>
         ELSE /\ pc' = "search"
              /\ currentDir' = cwd
              /\ lastErr' = NoCall
              /\ loaded' = EmptyString
              /\ UNCHANGED <<Env, environ>>
    /\ UNCHANGED <<version, cwd, files, unreadable>>

\* variant: the loop breaks after the first level
StopsAtAlways(parent) == TRUE

\* variant: the loop breaks at "." only
StopsAtDotOnly(parent) == parent = Dot

\* the parent at which the upward loop breaks: "/" or "."
StopsAt(parent) == parent = Slash \/ parent = Dot

\* one iteration of the loop of searchInCurrentAndParentDirectories; the
\* iteration that leaves the loop returns through findEnvFile to LoadEnv
searchInCurrentAndParentDirectories ==
    /\ pc = "search"
    /\ LET r == searchInDirectory(currentDir)
           parent == Dir(currentDir)
       IN /\ scan' = r
          /\ scanned' = Append(scanned, currentDir)
          /\ IF r.err # Nil
             THEN /\ LoadEnvReturn(EmptyString, EmptyString, r.err)
                  /\ pc' = "idle"
                  /\ UNCHANGED currentDir
             ELSE IF r.filePath # EmptyString
             THEN /\ LoadEnvReturn(r.filePath, r.env, Nil)
                  /\ pc' = "idle"
                  /\ UNCHANGED currentDir
             ELSE IF StopsAt(parent)
             THEN /\ LoadEnvReturn(r.filePath, r.env, Nil)
                  /\ pc' = "idle"
                  /\ currentDir' = parent
             ELSE /\ currentDir' = parent
                  /\ UNCHANGED <<pc, lastErr, Env, environ, loaded>>
    /\ UNCHANGED <<version, cwd, files, unreadable, envAtCall, environAtCall, got>>

(***************************************************************************)
(* The earlier loader.                                                     *)
(***************************************************************************)
\* the earlier findEnvFile: walks ".", drops the error of the walk
findEnvFile ==
    LET w == Walk(Dot, "findEnvFile", [filePath |-> EmptyString, env |-> EmptyString])
    IN [filePath |-> w.st.filePath, env |-> w.st.env, err |-> Nil,
        walkErr |-> w.err, n |-> w.n, dir |-> Dot]

\* the earlier LoadEnv
LoadEnvV1 ==
    /\ version = "v1"
    /\ pc = "idle"
    /\ envAtCall' = Env
    /\ environAtCall' = environ
    /\ got' = NotAsked
    /\ LET r == findEnvFile
       IN /\ scan' = r
          /\ scanned' = <<Dot>>
          /\ IF r.filePath = EmptyString
             THEN /\ lastErr' = ErrNotFound
                  /\ loaded' = EmptyString
                  /\ UNCHANGED <<Env, environ>>
             ELSE LoadEnvReturn(r.filePath, r.env, Nil)
    /\ UNCHANGED <<version, cwd, files, unreadable, pc, currentDir>>

\* GetEnv (the same in both loaders)
GetEnv ==
    /\ pc = "idle"
    /\ got' = [called |-> TRUE, value |-> Env]
    /\ UNCHANGED <<version, cwd, files, unreadable, environ, Env, pc, currentDir,
                   lastErr, loaded, scanned, scan, envAtCall, environAtCall>>

Next ==
    \/ LoadEnv
    \/ searchInCurrentAndParentDirectories
    \/ LoadEnvV1
    \/ GetEnv

Spec == Init /\ [][Next]_vars


(***************************************************************************)
(* Vocabulary of the properties.                                           *)
(***************************************************************************)
IsV2 == version = "v2"
IsV1 == version = "v1"

\* a LoadEnv call has returned
Returned == pc = "idle" /\ lastErr # NoCall

\* the file name is a candidate, and the profile it encodes
IsCandidate(path) == HasPrefix(Base(path), DotEnvPrefix)
EncodedProfile(path) == TrimPrefix(Base(path), DotEnvPrefix)

\* a candidate whose encoded profile is the profile the loader was called with
IsMatch(path) == IsCandidate(path) /\ EncodedProfile(path) = envAtCall

\* path lies in dir or below it
InSubtree(path, dir) ==
    \/ path = dir
    \/ dir = Slash /\ HasPrefix(path, Slash)
    \/ HasPrefix(path, dir \o Slash)

\* a directory and all its ancestors, the filesystem root included
RECURSIVE Ancestors(_)
Ancestors(dir) == IF dir = Slash THEN <<dir>> ELSE <<dir>> \o Ancestors(Dir(dir))

\* the levels of the upward walk: a directory and its ancestors below the root
RECURSIVE Levels(_)
Levels(dir) ==
    IF Dir(dir) = Slash \/ Dir(dir) = Dot THEN <<dir>> ELSE <<dir>> \o Levels(Dir(dir))

\* the files of the traversal of dir, in the order the walk visits them,
\* up to the first directory that cannot be read
RECURSIVE UntilError(_)
UntilError(visits) ==
    IF visits = << >> \/ Head(visits).err # Nil THEN << >>
    ELSE <<Head(visits)>> \o UntilError(Tail(visits))

IsFileVisit(v) == ~v.isDir
IsMatchVisit(v) == ~v.isDir /\ IsMatch(v.path)
IsCandidateVisit(v) == ~v.isDir /\ IsCandidate(v.path)
VisibleMatches(dir) == SelectSeq(UntilError(VisitOrder(dir)), IsMatchVisit)
VisibleCandidates(dir) == SelectSeq(UntilError(VisitOrder(dir)), IsCandidateVisit)

\* the walk of dir meets a directory it cannot read before any match
ErrorBeforeMatch(dir) ==
    /\ VisibleMatches(dir) = << >>
    /\ \E i \in 1..Len(VisitOrder(dir)) : VisitOrder(dir)[i].err # Nil

\* the filesystem errors a call can report
IsFsError(e) == e.kind = "fs" \/ e.kind = "getwd"
IsLoadError(e) == e.kind = "erro ao carregar variaveis de ambiente"

\* the first level of seq levels whose subtree holds a matching file, 0 if none
FirstMatchLevel(levels) ==
    LET hit == {i \in 1..Len(levels) :
                  \E f \in files : IsMatch(f) /\ InSubtree(f, levels[i])}
    IN IF hit = {} THEN 0 ELSE CHOOSE i \in hit : \A j \in hit : i <= j

CwdEnvFile == Join(cwd, DotEnvPrefix \o envAtCall)

(***************************************************************************)
(* C1: when the working directory directly holds .env.<p>, p is the active *)
(* profile and LoadEnv returns no error, then afterwards the process       *)
(* environment maps every KEY of that file to the file's VALUE, whatever   *)
(* the environment held before.                                            *)
(***************************************************************************)
C1_LoadedPairsPresent ==
    (IsV2 /\ Returned /\ lastErr = Nil /\ CwdEnvFile \in files)
        => \A k \in Keys : environ[k] = Content(CwdEnvFile)[k]

(***************************************************************************)
(* C2, as claimed: for every ancestor D of the working directory, the root *)
(* included, a matching file in D or below it, with no closer match, no    *)
(* filesystem error and (read in the claim's favour) no failure of the     *)
(* parser and no other match in D's subtree, is the file LoadEnv loads,    *)
(* without error.                                                          *)
(***************************************************************************)
C2_FoundUpToRoot ==
    (IsV2 /\ Returned /\ unreadable = {} /\ ~IsFsError(lastErr) /\ ~IsLoadError(lastErr))
        => LET anc == Ancestors(cwd)
               i == FirstMatchLevel(anc)
           IN \A f \in files :
                (/\ i # 0
                 /\ IsMatch(f)
                 /\ InSubtree(f, anc[i])
                 /\ \A g \in files : (IsMatch(g) /\ InSubtree(g, anc[i])) => g = f)
                    => (loaded = f /\ lastErr = Nil)

(***************************************************************************)
(* C2, amended: the same for every level D of the upward walk, which are   *)
(* the working directory and its ancestors below the filesystem root (the  *)
(* root is a level only when it is the working directory): when no         *)
(* filesystem error occurs and the parser does not fail, LoadEnv returns   *)
(* no error and has loaded the first match, in traversal order, of the     *)
(* first level whose subtree holds a match.                                *)
(***************************************************************************)
C2_FoundBelowRoot ==
    (IsV2 /\ Returned /\ unreadable = {} /\ ~IsFsError(lastErr) /\ ~IsLoadError(lastErr))
        => LET lv == Levels(cwd)
               i == FirstMatchLevel(lv)
           IN IF i = 0
              THEN loaded = EmptyString /\ lastErr = ErrNotFound
              ELSE /\ lastErr = Nil
                   /\ loaded = VisibleMatches(lv[i])[1].path
                   /\ IsMatch(loaded) /\ loaded \in files /\ InSubtree(loaded, lv[i])

\* a match in a sibling branch of an ancestor is loaded by walking upward
C2_Witness ==
    /\ IsV2 /\ Returned /\ lastErr = Nil /\ unreadable = {}
    /\ cwd = DirAX
    /\ loaded = Join(DirAB, DotEnvPrefix \o envAtCall)
    /\ scanned = <<DirAX, DirA>>

(***************************************************************************)
(* C3, as claimed: a file LoadEnv loads always encodes the active profile, *)
(* and when every candidate the search can reach is a mismatch the result  *)
(* is the not-found error.  (Read in the claim's favour: the search has    *)
(* started, and its first traversal visits a candidate.)                   *)
(***************************************************************************)
ReachableCandidates ==
    {f \in files : IsCandidate(f) /\ \E i \in 1..Len(Levels(cwd)) : InSubtree(f, Levels(cwd)[i])}

\* C3 as claimed: a loaded file encodes the active profile, and only
\* mismatching candidates in reach means the not-found error
C3_MismatchIsNotFound ==
    (IsV2 /\ Returned)
        => /\ loaded # EmptyString => EncodedProfile(loaded) = envAtCall
           /\ (/\ scanned # << >>
               /\ VisibleCandidates(cwd) # << >>
               /\ \A f \in ReachableCandidates : ~IsMatch(f)) => lastErr = ErrNotFound

(***************************************************************************)
(* C3, amended: a file LoadEnv loads always encodes the active profile     *)
(* (exact, case-sensitive equality), and when every candidate the search   *)
(* can reach is a mismatch nothing is loaded and, unless a filesystem      *)
(* error is reported, the result is the not-found error.                   *)
(***************************************************************************)
C3_MismatchNeverSelected ==
    (IsV2 /\ Returned)
        => /\ loaded # EmptyString => (IsCandidate(loaded) /\ EncodedProfile(loaded) = envAtCall)
           /\ (\A f \in ReachableCandidates : ~IsMatch(f))
                => /\ loaded = EmptyString
                   /\ ~IsFsError(lastErr) => lastErr = ErrNotFound

\* only the other-case candidate is in reach, and the call ends not found
C3_Witness ==
    /\ IsV2 /\ Returned /\ lastErr = ErrNotFound
    /\ envAtCall = <<"d">>
    /\ Join(cwd, DotEnvPrefix \o <<"D">>) \in files
    /\ scan.n >= 2


(***************************************************************************)
(* C4: on a tree with no matching file and no filesystem error LoadEnv     *)
(* terminates: every iteration of the upward loop that does not leave the  *)
(* loop replaces the current directory by its parent, which is a strictly  *)
(* shorter path (so the loop cannot run forever), the loop stops when the  *)
(* parent is "/" or ".", and the call returns the not-found error after    *)
(* scanning exactly the levels from the working directory upward.  (The    *)
(* only guard of an iteration is that a call is running, so the strictly   *)
(* decreasing path length bounds the number of iterations.)                *)
(***************************************************************************)
NoMatchNoError ==
    /\ unreadable = {}
    /\ \A f \in files : ~(IsCandidate(f) /\ EncodedProfile(f) = Env)

C4_Climbs ==
    (pc = "search" /\ pc' = "search")
        => /\ currentDir' = Dir(currentDir)
           /\ Len(currentDir') < Len(currentDir)
           /\ currentDir' # Slash /\ currentDir' # Dot

C4_Stops ==
    (pc = "search" /\ pc' = "idle" /\ lastErr' = ErrNotFound)
        => StopsAt(Dir(currentDir))

\* C4: the upward loop climbs to a strictly shorter parent, stops at "/" or
\* ".", and a search with no match and no error returns not found
C4_Terminates ==
    /\ [][C4_Climbs /\ C4_Stops]_vars
    /\ []((IsV2 /\ Returned /\ NoMatchNoError /\ lastErr # ErrGetwd)
            => (lastErr = ErrNotFound /\ scanned = Levels(cwd)))

\* not found after climbing two levels, and not found starting at the root
C4_Witness ==
    /\ IsV2 /\ Returned /\ NoMatchNoError /\ lastErr = ErrNotFound
    /\ \/ cwd = DirAX /\ scanned = <<DirAX, DirA>> /\ currentDir = Slash
       \/ cwd = Slash /\ scanned = <<Slash>> /\ currentDir = Slash /\ files # {}

(***************************************************************************)
(* C5: a filesystem error reported during a scan before a match is found   *)
(* is what LoadEnv returns, unwrapped; no further parent is scanned, no    *)
(* file is parsed or applied and the active profile stays as it was.  A    *)
(* search that ends with no match and no filesystem error returns the      *)
(* not-found error, never a filesystem error.                              *)
(***************************************************************************)
\* the first level of the walk whose traversal stops: at a match or an error
FirstStopLevel(levels) ==
    LET hit == {i \in 1..Len(levels) :
                  VisibleMatches(levels[i]) # << >> \/ ErrorBeforeMatch(levels[i])}
    IN IF hit = {} THEN 0 ELSE CHOOSE i \in hit : \A j \in hit : i <= j

\* C5: a filesystem error met before a match is returned unchanged and ends
\* the call with nothing scanned further, loaded or changed
C5_SearchFailurePropagates ==
    (IsV2 /\ Returned /\ lastErr # ErrGetwd)
        => LET lv == Levels(cwd)
               i == FirstStopLevel(lv)
           IN /\ (i # 0 /\ ErrorBeforeMatch(lv[i]))
                   => /\ \E d \in unreadable :
                           /\ InSubtree(d, lv[i])
                           /\ lastErr = FsError(d)
                      /\ scanned = SubSeq(lv, 1, i)
                      /\ loaded = EmptyString
                      /\ Env = envAtCall
                      /\ environ = environAtCall
              /\ i = 0 => (lastErr = ErrNotFound /\ loaded = EmptyString)
              /\ (i # 0 /\ ~ErrorBeforeMatch(lv[i])) => ~IsFsError(lastErr)

\* the scan of the second level met the unreadable sibling directory
C5_Witness ==
    /\ IsV2 /\ Returned
    /\ cwd = DirAX /\ unreadable = {DirAB}
    /\ lastErr = FsError(DirAB)
    /\ scanned = <<DirAX, DirA>>
    /\ \E f \in files : IsMatch(f) /\ InSubtree(f, DirA)

(***************************************************************************)
(* C6: the active profile changes only on a fully successful LoadEnv:      *)
(* after a LoadEnv that returned an error, GetEnv returns what it returned *)
(* before the call.                                                        *)
(***************************************************************************)
C6_ErrorKeepsProfile ==
    (Returned /\ lastErr # Nil)
        => /\ Env = envAtCall
           /\ got.called => got.value = envAtCall


(***************************************************************************)
(* C7: after a LoadEnv that returned no error, the active profile, and     *)
(* every value GetEnv has returned since, is the profile encoded in the    *)
(* name of the file that was passed to the parser; the path and the        *)
(* profile a search records on finding a file belong to the same file.     *)
(***************************************************************************)
C7_ProfileOfLoadedFile ==
    /\ (Returned /\ lastErr = Nil)
         => /\ loaded # EmptyString
            /\ Abs(loaded) \in files
            /\ loaded = scan.filePath
            /\ Env = EncodedProfile(loaded)
            /\ got.called => got.value = EncodedProfile(loaded)
    /\ scan.filePath # EmptyString
         => (IsCandidate(scan.filePath) /\ scan.env = EncodedProfile(scan.filePath))

\* GetEnv after a successful load that went past another candidate
C7_Witness ==
    /\ Returned /\ lastErr = Nil
    /\ got.called /\ got.value = EncodedProfile(loaded)
    /\ Cardinality({f \in files : IsCandidate(f)}) = 2
    /\ scan.n = Len(VisitOrder(scan.dir))

(***************************************************************************)
(* C8: the scan of a directory raises ErrEnvFound exactly when its         *)
(* traversal reaches a matching file; the scan stops at that file (it is   *)
(* the last entry visited and the first match of the traversal), the       *)
(* signal is turned into a nil error with the non-empty path of the match, *)
(* and LoadEnv never returns ErrEnvFound.                                  *)
(***************************************************************************)
C8_StopSignal ==
    /\ lastErr # ErrEnvFound
    /\ (IsV2 /\ scan # NoScan)
         => LET vis == VisitOrder(scan.dir)
            IN /\ (scan.walkErr = ErrEnvFound) <=> (VisibleMatches(scan.dir) # << >>)
               /\ scan.walkErr = ErrEnvFound
                    => /\ scan.n \in 1..Len(vis)
                       /\ IsMatchVisit(vis[scan.n])
                       /\ \A j \in 1..(scan.n - 1) : ~IsMatchVisit(vis[j]) /\ vis[j].err = Nil
                       /\ scan.filePath = vis[scan.n].path
                       /\ scan.filePath # EmptyString
                       /\ scan.err = Nil
               /\ scan.walkErr # ErrEnvFound
                    => (scan.filePath = EmptyString /\ scan.err = scan.walkErr)

\* the signal stopped a scan that had entries left to visit
C8_Witness ==
    /\ IsV2 /\ Returned /\ lastErr = Nil
    /\ scan.walkErr = ErrEnvFound
    /\ scan.n < Len(VisitOrder(scan.dir))
    /\ \E j \in (scan.n + 1)..Len(VisitOrder(scan.dir)) : IsMatchVisit(VisitOrder(scan.dir)[j])

(***************************************************************************)
(* C9: the file LoadEnv loads is the first match, in the traversal order   *)
(* of the directory walk, of the first level of the upward walk whose      *)
(* subtree holds a match, and no level above that one is scanned.          *)
(***************************************************************************)
C9_NearestLevelFirstMatch ==
    (IsV2 /\ Returned /\ loaded # EmptyString)
        => LET lv == Levels(cwd)
               i == FirstMatchLevel(lv)
           IN /\ i # 0
              /\ VisibleMatches(lv[i]) # << >>
              /\ loaded = VisibleMatches(lv[i])[1].path
              /\ scanned = SubSeq(lv, 1, i)

\* matches on two levels: the one in the working directory is loaded
C9_Witness ==
    /\ IsV2 /\ Returned /\ loaded # EmptyString
    /\ cwd = DirAX
    /\ files = {Join(DirAX, DotEnvPrefix \o envAtCall), Join(DirA, DotEnvPrefix \o envAtCall)}
    /\ loaded = Join(DirAX, DotEnvPrefix \o envAtCall)
    /\ scanned = <<DirAX>>

(***************************************************************************)
(* C10, as claimed: the earlier findEnvFile returns the path and profile   *)
(* of the first candidate its walk visits.                                 *)
(***************************************************************************)
C10_FirstFound ==
    (IsV1 /\ Returned /\ VisibleCandidates(Dot) # << >>)
        => /\ scan.filePath = VisibleCandidates(Dot)[1].path
           /\ scan.env = EncodedProfile(VisibleCandidates(Dot)[1].path)

(***************************************************************************)
(* C10, amended: the earlier findEnvFile returns the path and profile of   *)
(* the last candidate its walk of the working directory visits, whether    *)
(* or not that profile is the active one (the walk ends at the end of the  *)
(* tree or at the first directory that cannot be read); with no candidate  *)
(* visited it returns the empty path and profile.                          *)
(***************************************************************************)
C10_LastFound ==
    (IsV1 /\ Returned)
        => LET c == VisibleCandidates(Dot)
           IN IF c = << >>
              THEN scan.filePath = EmptyString /\ scan.env = EmptyString
              ELSE /\ scan.filePath = c[Len(c)].path
                   /\ scan.env = EncodedProfile(c[Len(c)].path)

\* two candidates visited, the second one returned, its profile not the active one
C10_Witness ==
    /\ IsV1 /\ Returned
    /\ Len(VisibleCandidates(Dot)) = 2
    /\ scan.filePath = VisibleCandidates(Dot)[2].path
    /\ scan.filePath # VisibleCandidates(Dot)[1].path
    /\ scan.env # envAtCall


(***************************************************************************)
(* C11: a search of the profile-matching loader that returns the empty     *)
(* path with a nil error returns the empty profile with it, also when      *)
(* candidates that do not match were visited.                              *)
(***************************************************************************)
C11_NoMatchEmptyProfile ==
    (IsV2 /\ scan # NoScan /\ scan.filePath = EmptyString /\ scan.err = Nil)
        => scan.env = EmptyString

(***************************************************************************)
(* C12: in the profile-matching loader no step changes the active profile: *)
(* LoadEnv assigns to Env only a value equal to Env, so Env is always what *)
(* it was when the call began, and GetEnv returns that value after every   *)
(* load, successful or failed.                                             *)
(***************************************************************************)
C12_ProfileNeverChanges ==
    /\ [][IsV2 => (Env' = Env /\ (got'.called => got'.value = Env))]_vars
    /\ [](IsV2 => Env = envAtCall)

\* GetEnv after a successful load whose walk went past a candidate of
\* another profile
C12_Witness ==
    /\ IsV2 /\ Returned /\ lastErr = Nil /\ loaded # EmptyString
    /\ got.called /\ got.value = envAtCall
    /\ \E f \in files : IsCandidate(f) /\ ~IsMatch(f) /\ InSubtree(f, cwd)
    /\ scan.n >= 3

====
